---- MODULE Spec2Model ----
(***************************************************************************)
(* Model of src/v12.py: the alert engine of the multi-symbol monitor.      *)
(*                                                                         *)
(*   check_custom_alerts  the free-text price-level rule (re.split,        *)
(*                        strip/upper, re.search, float, comparison)       *)
(*   get_signal           the trend/volume, breakout and MACD-flip rules,  *)
(*                        their aggregation and the Telegram dispatch      *)
(*   send_telegram_msg    the notifier call, which swallows every error    *)
(*   fetch_data           the data source, None when nothing is available  *)
(*   the while-True loop  one pass over the symbols per refresh            *)
(*                                                                         *)
(* Text is a sequence of characters, a character a one-element string.     *)
(* The two-character operators of the pattern are written with the atoms   *)
(* "sheng" "chuan" (rise through) and "die" "chuan" (fall through), one    *)
(* atom per CJK character.  Labels that the source writes with emoji are   *)
(* ASCII strings here, see the label definitions below.                    *)
(*                                                                         *)
(* Prices, volumes and indicator values are integers.  The percent change  *)
(* and the volume ratio are quotients in the source; they are kept as      *)
(* exact fractions and compared by cross-multiplication (denominators are  *)
(* positive), so no rounding is introduced.                                *)
(***************************************************************************)
EXTENDS Integers, Sequences, FiniteSets, TLC

VARIABLES
    \* ---- the polling loop ----
    pc,         \* "idle" (loop not running), "running", "crashed"
    cfg,        \* the sidebar configuration the loop runs with
    cycle,      \* number of the current pass of the while-True loop
    i,          \* position of the for loop in symbols (Len+1: pass finished)
    all_data,   \* keys of the all_data dict of the current pass; the card of
                \* a symbol is rendered in the iteration that adds its key
    sent,       \* per position: notifier calls made in the current pass
    sends,      \* per position: notifier calls made since the start
    fires,      \* per position: ticks whose evaluation set trigger_alert
    runs,       \* per position: maximal runs of ticks firing one action
    polls,      \* per position: fetch_data calls made since the start
    lastTick,   \* per position: what its latest tick was: "none" (not polled
                \* yet), "skipped", "quiet", or the action it fired
    lastFailed, \* per position: the latest notifier call met a transport error
    ev,         \* the step the loop took last, with the tuple get_signal returned
    \* ---- get_signal applied to one input ----
    sig_in,     \* [df, cfg, sym] or Null
    sig_out,    \* the record GetSignal returns, or Null
    \* ---- check_custom_alerts applied to one input ----
    ca_in,      \* [sym, price, text] or Null
    ca_out      \* [hit, reason] or Null

vars == <<pc, cfg, cycle, i, all_data, sent, sends, fires, runs,
          polls, lastTick, lastFailed, ev, sig_in, sig_out, ca_in, ca_out>>

loopVars == <<pc, cfg, cycle, i, all_data, sent, sends, fires, runs,
              polls, lastTick, lastFailed, ev>>

(***************************************************************************)
(* Bounds of the model.                                                    *)
(***************************************************************************)
MaxText == 4        \* longest alert text enumerated for check_custom_alerts
MaxPrice == 3       \* closes, highs and lows range over 1..MaxPrice
MaxCycles == 3      \* passes of the polling loop that are explored

(***************************************************************************)
(* Characters and Python's str operations.                                 *)
(***************************************************************************)
Letters == {"A", "B"}
LowerLetters == {"a"}
Digits == {"1", "2"}
Whitespace == {" "}                 \* \s, and what str.strip() removes
Separators == {",", "\n"}           \* the class [,\n] of re.split

DigitVal(c) == IF c = "1" THEN 1 ELSE IF c = "2" THEN 2 ELSE 0

Pow10(k) == IF k = 0 THEN 1 ELSE IF k = 1 THEN 10 ELSE IF k = 2 THEN 100
            ELSE IF k = 3 THEN 1000 ELSE IF k = 4 THEN 10000 ELSE 100000

\* str.upper() on one character
UpperChar(c) == IF c = "a" THEN "A" ELSE c

upper(s) == [k \in 1..Len(s) |-> UpperChar(s[k])]

\* str.strip(): drop leading and trailing whitespace
strip(s) ==
    LET keep == {k \in 1..Len(s) : s[k] \notin Whitespace}
    IN  IF keep = {} THEN <<>>
        ELSE LET lo == CHOOSE k \in keep : \A m \in keep : k <= m
                 hi == CHOOSE k \in keep : \A m \in keep : k >= m
             IN  SubSeq(s, lo, hi)

\* re.split(r'[,\n]', s): the pieces between separators, empty ones kept
RECURSIVE re_split(_)
re_split(s) ==
    LET seps == {k \in 1..Len(s) : s[k] \in Separators}
    IN  IF seps = {} THEN <<s>>
        ELSE LET k == CHOOSE k \in seps : \A m \in seps : k <= m
             IN  <<SubSeq(s, 1, k - 1)>> \o re_split(SubSeq(s, k + 1, Len(s)))

\* first index >= p of s whose character is not in cls (Len(s)+1 if none)
SkipClass(s, p, cls) ==
    LET stop == {k \in p..Len(s) : s[k] \notin cls}
    IN  IF stop = {} THEN (IF p > Len(s) THEN p ELSE Len(s) + 1)
        ELSE CHOOSE k \in stop : \A m \in stop : k <= m

\* length of the operator ([><]|sheng chuan|die chuan) at index p, 0 if none
OpLenAt(s, p) ==
    IF p <= Len(s) /\ s[p] \in {">", "<"} THEN 1
    ELSE IF p + 1 <= Len(s) /\ s[p] \in {"sheng", "die"} /\ s[p + 1] = "chuan" THEN 2
    ELSE 0

\* group(1) of the pattern, as the comparison it selects
OpKind(s, p) == IF s[p] \in {">", "sheng"} THEN "above" ELSE "below"

NoMatch == [found |-> FALSE]

(***************************************************************************)
(* The pattern of line 74 (symbol, optional whitespace, operator, optional *)
(* whitespace, digits with an optional point and more digits) tried at     *)
(* index p of a.  The whitespace and digit runs are greedy and what        *)
(* follows them cannot start with a character of their class, so the       *)
(* greedy attempt is the only one.                                         *)
(***************************************************************************)
MatchAt(sym, a, p) ==
    IF p + Len(sym) - 1 > Len(a) \/ SubSeq(a, p, p + Len(sym) - 1) # sym THEN NoMatch
    ELSE
    LET q1 == SkipClass(a, p + Len(sym), Whitespace)
        ol == OpLenAt(a, q1)
    IN  IF ol = 0 THEN NoMatch
        ELSE
        LET q2 == SkipClass(a, q1 + ol, Whitespace)
            q3 == SkipClass(a, q2, Digits)
        IN  IF q3 = q2 THEN NoMatch
            ELSE
            LET q4 == IF q3 <= Len(a) /\ a[q3] = "." THEN q3 + 1 ELSE q3
                q5 == SkipClass(a, q4, Digits)
            IN  [found |-> TRUE, start |-> p, end |-> q5 - 1,
                 op |-> OpKind(a, q1),
                 int |-> SubSeq(a, q2, q3 - 1),
                 frac |-> SubSeq(a, q4, q5 - 1)]

\* re.search: the match at the leftmost index that has one
re_search(sym, a) ==
    LET hits == {p \in 1..Len(a) : MatchAt(sym, a, p).found}
    IN  IF hits = {} THEN NoMatch
        ELSE MatchAt(sym, a, CHOOSE p \in hits : \A m \in hits : p <= m)

\* value of a digit string
RECURSIVE DigitsVal(_)
DigitsVal(d) ==
    IF d = <<>> THEN 0
    ELSE 10 * DigitsVal(SubSeq(d, 1, Len(d) - 1)) + DigitVal(d[Len(d)])

\* float(group(2)) as the fraction num/den
ParseFloat(m) == [num |-> DigitsVal(m.int) * Pow10(Len(m.frac)) + DigitsVal(m.frac),
                  den |-> Pow10(Len(m.frac))]

\* the comparison of lines 78-79, price against target_price
CrossHolds(op, price, target) ==
    \/ op = "above" /\ price * target.den >= target.num
    \/ op = "below" /\ price * target.den <= target.num

\* one pass of the for loop body: does entry a trigger?
EntryHits(sym, price, raw) ==
    LET a == upper(strip(raw))
        m == re_search(sym, a)
    IN  /\ a # <<>>
        /\ m.found
        /\ CrossHolds(m.op, price, ParseFloat(m))

check_custom_alerts(sym, price, alert_str) ==
    LET alerts == re_split(alert_str)
        hits == {k \in 1..Len(alerts) : EntryHits(sym, price, alerts[k])}
    IN  IF hits = {} THEN [hit |-> FALSE, reason |-> <<>>]
        ELSE LET k == CHOOSE k \in hits : \A m \in hits : k <= m
             IN  [hit |-> TRUE, reason |-> upper(strip(alerts[k]))]

(***************************************************************************)
(* Labels.  The source's strings, in ASCII:                                *)
(*   PRICE_HIT    the action written at line 101 (price level reached)     *)
(*   STRONG_BULL  the action written at line 125 (strong long)             *)
(*   STRONG_BEAR  the action written at line 133 (strong short)            *)
(*   the statuses of line 142 are "long", "short" and "watch"              *)
(***************************************************************************)
PRICE_HIT == "price-hit"
STRONG_BULL == "strong-bull"
STRONG_BEAR == "strong-bear"

R_BASE_BULL == "trend-volume-bull"      \* line 127
R_BREAK_HIGH == "break-5bar-high"       \* line 128
R_MACD_BULL == "macd-7neg-1pos"         \* line 129
R_BASE_BEAR == "trend-volume-bear"      \* line 135
R_BREAK_LOW == "break-5bar-low"         \* line 136
R_MACD_BEAR == "macd-7pos-1neg"         \* line 137

\* a float cell that may be undefined: NaN, or Num(x)
NaN == [nan |-> TRUE, val |-> 0]
Num(x) == [nan |-> FALSE, val |-> x]

MinBars == 10           \* line 85
BreakoutBars == 5       \* line 114: iloc[-6:-1]
MacdWindow == 8         \* lines 118-119

(***************************************************************************)
(* A data frame df, as get_signal reads it: its length and the tail of its *)
(* columns.                                                                *)
(*   len                    len(df)                                        *)
(*   Close, PrevClose       Close of iloc[-1] and of iloc[-2]              *)
(*   Volume, Vol_Avg        of iloc[-1]; Vol_Avg is NaN below 20 bars      *)
(*   EMA20, EMA60, EMA200   of iloc[-1]                                    *)
(*   High5, Low5            High and Low of iloc[-6:-1]                    *)
(*   Hist                   Hist of iloc[-8:]                              *)
(***************************************************************************)
RECURSIVE SeqMax(_)
SeqMax(q) == IF Len(q) = 1 THEN q[1]
             ELSE LET m == SeqMax(Tail(q)) IN IF q[1] > m THEN q[1] ELSE m

RECURSIVE SeqMin(_)
SeqMin(q) == IF Len(q) = 1 THEN q[1]
             ELSE LET m == SeqMin(Tail(q)) IN IF q[1] < m THEN q[1] ELSE m

\* line 85
TooShort(df) == df.len < MinBars

\* line 90, as the fraction num/den (den = PrevClose > 0)
p_change(df) == [num |-> (df.Close - df.PrevClose) * 100, den |-> df.PrevClose]

\* line 91: NaN > 0 is False, so an undefined average gives 1 as a zero one does
v_ratio(df) == IF ~df.Vol_Avg.nan /\ df.Vol_Avg.val > 0
               THEN [num |-> df.Volume, den |-> df.Vol_Avg.val]
               ELSE [num |-> 1, den |-> 1]

\* comparisons of a fraction (den > 0) with an integer
FracGE(f, n) == f.num >= n * f.den
FracLE(f, n) == f.num <= n * f.den
FracGT(f, n) == f.num > n * f.den
FracAbsGE(f, n) == FracGE(f, n) \/ FracLE(f, 0 - n)

\* lines 105-106
is_bull_trend(df) == df.Close > df.EMA200 /\ df.EMA20 > df.EMA60
is_bear_trend(df) == df.Close < df.EMA200 /\ df.EMA20 < df.EMA60

\* lines 109-110
mut_base_bull(df, p_limit, v_limit) ==
    is_bull_trend(df) /\ FracGT(p_change(df), p_limit) /\ FracGE(v_ratio(df), v_limit)

base_bull(df, p_limit, v_limit) ==
    is_bull_trend(df) /\ FracGE(p_change(df), p_limit) /\ FracGE(v_ratio(df), v_limit)

base_bear(df, p_limit, v_limit) ==
    is_bear_trend(df) /\ FracLE(p_change(df), 0 - p_limit) /\ FracGE(v_ratio(df), v_limit)

\* lines 112-115
is_break_high(df, use_breakout) == use_breakout /\ df.Close > SeqMax(df.High5)
is_break_low(df, use_breakout) == use_breakout /\ df.Close < SeqMin(df.Low5)

\* lines 117-121
hist_window(df) == df.Hist

mut_macd_bull_flip(df, use_macd_flip) ==
    /\ use_macd_flip
    /\ df.len >= MacdWindow
    /\ LET w == hist_window(df)
       IN  (\A k \in 1..(Len(w) - 1) : w[k] <= 0) /\ w[Len(w)] > 0

macd_bull_flip(df, use_macd_flip) ==
    /\ use_macd_flip
    /\ df.len >= MacdWindow
    /\ LET w == hist_window(df)
       IN  (\A k \in 1..(Len(w) - 1) : w[k] < 0) /\ w[Len(w)] > 0

macd_bear_flip(df, use_macd_flip) ==
    /\ use_macd_flip
    /\ df.len >= MacdWindow
    /\ LET w == hist_window(df)
       IN  (\A k \in 1..(Len(w) - 1) : w[k] > 0) /\ w[Len(w)] < 0

(***************************************************************************)
(* send_telegram_msg: builds the message and calls the HTTP endpoint;      *)
(* every exception (missing secret, timeout, connection error) is caught   *)
(* and shown with st.error.  ok is what the transport does on this call.   *)
(***************************************************************************)
mut_send_telegram_msg(msg, ok) ==
    [msg |-> msg, delivered |-> ok, error_shown |-> FALSE, raised |-> ~ok]

send_telegram_msg(msg, ok) ==
    [msg |-> msg, delivered |-> ok, error_shown |-> ~ok, raised |-> FALSE]

\* lines 139-140: the notifier calls of one evaluation
mut_DispatchRulesOnly(trigger_alert, hit_custom, msg, ok) ==
    IF trigger_alert /\ msg.action # PRICE_HIT
    THEN <<send_telegram_msg(msg, ok)>> ELSE <<>>

mut_Dispatch(trigger_alert, hit_custom, msg, ok) ==
    IF ~trigger_alert THEN <<>>
    ELSE IF hit_custom /\ msg.action # PRICE_HIT
         THEN <<send_telegram_msg([msg EXCEPT !.action = PRICE_HIT], ok),
                send_telegram_msg(msg, ok)>>
         ELSE <<send_telegram_msg(msg, ok)>>

Dispatch(trigger_alert, hit_custom, msg, ok) ==
    IF trigger_alert THEN <<send_telegram_msg(msg, ok)>> ELSE <<>>

\* lines 123-137: the action after the bullish / bearish aggregation
mut_Aggregate(custom_action, bull, bear) ==
    IF bear THEN STRONG_BEAR ELSE IF bull THEN STRONG_BULL ELSE custom_action

Aggregate(custom_action, bull, bear) ==
    IF bull THEN STRONG_BULL ELSE IF bear THEN STRONG_BEAR ELSE custom_action

\* the list built by successive append(x) calls, each under its condition
RECURSIVE PickFrom(_, _)
PickFrom(pairs, k) == IF k > Len(pairs) THEN <<>>
                      ELSE (IF pairs[k][1] THEN <<pairs[k][2]>> ELSE <<>>)
                           \o PickFrom(pairs, k + 1)

Pick(pairs) == PickFrom(pairs, 1)

\* line 85: what get_signal returns on a short frame, five values
ShortReturn ==
    [ret |-> <<"loading", "grey", "insufficient-data", FALSE, "">>,
     calls |-> <<>>, raised |-> FALSE, evaluated |-> FALSE,
     trigger_alert |-> FALSE, action_type |-> "", reasons |-> <<>>,
     hit_custom |-> FALSE, base_bull |-> FALSE, base_bear |-> FALSE,
     is_break_high |-> FALSE, is_break_low |-> FALSE,
     macd_bull_flip |-> FALSE, macd_bear_flip |-> FALSE]

\* lines 99 and 109-121: the verdicts of the four rules
SignalRules(df, p_limit, v_limit, sym, use_breakout, use_macd_flip, custom_alert_input) ==
    [custom |-> check_custom_alerts(sym, df.Close, custom_alert_input),
     bb |-> base_bull(df, p_limit, v_limit),
     br |-> base_bear(df, p_limit, v_limit),
     bh |-> is_break_high(df, use_breakout),
     bl |-> is_break_low(df, use_breakout),
     mb |-> macd_bull_flip(df, use_macd_flip),
     mr |-> macd_bear_flip(df, use_macd_flip)]

\* lines 100-102 and 123-152, given the verdicts v
SignalOutcome(df, p_limit, v_limit, sym, use_breakout, v, ok) ==
    LET hit_custom == v.custom.hit
        custom_action == IF hit_custom THEN PRICE_HIT ELSE ""
        custom_style == IF ~hit_custom THEN ""
                        ELSE IF FracGT(p_change(df), 0) THEN "blink-bull"
                        ELSE "blink-bear"
        bull == v.bb \/ (use_breakout /\ v.bh) \/ v.mb
        bear == v.br \/ (use_breakout /\ v.bl) \/ v.mr
        action_type == Aggregate(custom_action, bull, bear)
        trigger_alert == hit_custom \/ bull \/ bear
        card_style == IF bull THEN "blink-bull"
                      ELSE IF bear THEN "blink-bear"
                      ELSE custom_style
        reasons == Pick(<< <<hit_custom, v.custom.reason>> >>)
                   \o (IF bull
                       THEN Pick(<< <<v.bb, R_BASE_BULL>>, <<v.bh, R_BREAK_HIGH>>,
                                    <<v.mb, R_MACD_BULL>> >>)
                       ELSE IF bear
                       THEN Pick(<< <<v.br, R_BASE_BEAR>>, <<v.bl, R_BREAK_LOW>>,
                                    <<v.mr, R_MACD_BEAR>> >>)
                       ELSE <<>>)
        calls == Dispatch(trigger_alert, hit_custom,
                          [sym |-> sym, action |-> action_type, reason |-> reasons,
                           price |-> df.Close, p_change |-> p_change(df),
                           v_ratio |-> v_ratio(df)],
                          ok)
        trend == IF is_bull_trend(df) THEN <<"long", "green">>
                 ELSE IF is_bear_trend(df) THEN <<"short", "red">>
                 ELSE <<"watch", "grey">>
        alert_msgs == Pick(<< <<hit_custom, "price-level">>,
                              <<FracAbsGE(p_change(df), p_limit), "price-move">>,
                              <<FracGE(v_ratio(df), v_limit), "volume-burst">>,
                              <<v.bh \/ v.bl, "breakout">>,
                              <<v.mb \/ v.mr, "macd-flip">> >>)
    IN  [ret |-> <<IF action_type # "" THEN action_type ELSE trend[1],
                   trend[2],
                   IF alert_msgs # <<>> THEN alert_msgs ELSE <<"normal">>,
                   card_style>>,
         calls |-> calls,
         raised |-> \E k \in 1..Len(calls) : calls[k].raised,
         evaluated |-> TRUE,
         trigger_alert |-> trigger_alert, action_type |-> action_type,
         reasons |-> reasons, hit_custom |-> hit_custom,
         base_bull |-> v.bb, base_bear |-> v.br,
         is_break_high |-> v.bh, is_break_low |-> v.bl,
         macd_bull_flip |-> v.mb, macd_bear_flip |-> v.mr]

(***************************************************************************)
(* get_signal.  The record holds the returned tuple (ret), the notifier    *)
(* calls it made (calls), whether an exception left it (raised) and the    *)
(* locals the evaluation computed.  ok is what the transport does if the   *)
(* notifier is called.                                                     *)
(***************************************************************************)
get_signal(df, p_limit, v_limit, sym, use_breakout, use_macd_flip, custom_alert_input, ok) ==
    IF TooShort(df) THEN ShortReturn
    ELSE SignalOutcome(df, p_limit, v_limit, sym, use_breakout,
                       SignalRules(df, p_limit, v_limit, sym, use_breakout,
                                   use_macd_flip, custom_alert_input),
                       ok)

(***************************************************************************)
(* Inputs.  A frame that yfinance and fetch_data can produce:              *)
(*   - a one-bar frame has no previous bar and no 5-bar window, its EMAs   *)
(*     equal its close (ewm is seeded by the first close) and its Hist is  *)
(*     0 (MACD and its signal start equal);                                *)
(*   - Vol_Avg is NaN below 20 bars (rolling(window=20)); from 20 bars on  *)
(*     it is the mean of volumes that include the latest one, so it is 0   *)
(*     only if that volume is 0;                                           *)
(*   - the previous close lies between the low and the high of the last    *)
(*     bar of the 5-bar window, which is the previous bar;                 *)
(*   - closes are positive (line 90 divides by the previous close).        *)
(***************************************************************************)
Prices == 1..MaxPrice
EmaVals == {1, 2}
HistVals == {0 - 1, 0, 1}
Lens == {9, 10, 20}             \* len(df) of the frames with history

\* the pairs <<Volume, Vol_Avg>> of the latest bar
VolPairs == {<<0, NaN>>, <<1, NaN>>, <<2, NaN>>,
             <<0, Num(0)>>, <<0, Num(1)>>, <<1, Num(1)>>, <<2, Num(1)>>}

\* Vol_Avg is defined from the 20th bar on
VolAvgFits(f) == f.Vol_Avg.nan <=> f.len < 20

Flat(n, v) == [k \in 1..n |-> v]

Max2(a, b) == IF a > b THEN a ELSE b
Min2(a, b) == IF a < b THEN a ELSE b

\* highs of the 5 prior bars: 2, but a at the second bar; the previous bar's
\* high is not below its close q
HighWindow(a, q) == [Flat(BreakoutBars, 2) EXCEPT ![2] = a, ![BreakoutBars] = Max2(2, q)]

\* lows of the 5 prior bars: 2, but c at the fourth bar; the previous bar's
\* low is not above its close q
LowWindow(c, q) == [Flat(BreakoutBars, 2) EXCEPT ![4] = c, ![BreakoutBars] = Min2(2, q)]

HistBullFlip == [Flat(MacdWindow, 0 - 1) EXCEPT ![MacdWindow] = 1]
HistBearFlip == [Flat(MacdWindow, 1) EXCEPT ![MacdWindow] = 0 - 1]
HistSamples == {HistBullFlip, HistBearFlip, Flat(MacdWindow, 0)}
HistAll == [1..MacdWindow -> HistVals]

OneBarFrames ==
    {[len |-> 1, Close |-> c, PrevClose |-> NaN, Volume |-> v, Vol_Avg |-> NaN,
      EMA20 |-> c, EMA60 |-> c, EMA200 |-> c,
      High5 |-> <<>>, Low5 |-> <<>>, Hist |-> <<0>>] : c \in Prices, v \in 0..2}

FramesWith(lens, closes, prevs, emas, vols, peaks, dips, hists) ==
    {f \in {[len |-> n, Close |-> c, PrevClose |-> q,
             Volume |-> va[1], Vol_Avg |-> va[2],
             EMA20 |-> e[1], EMA60 |-> e[2], EMA200 |-> e[3],
             High5 |-> HighWindow(a, q), Low5 |-> LowWindow(d, q), Hist |-> w] :
               n \in lens, c \in closes, q \in prevs, e \in emas, va \in vols,
               a \in peaks, d \in dips, w \in hists}
       : VolAvgFits(f)}

AllEmas == EmaVals \X EmaVals \X EmaVals

\* every combination of the sampled tails
SignalFrames ==
    FramesWith(Lens, Prices, {1, 2}, AllEmas, VolPairs, 2..MaxPrice, {1, 2}, HistSamples)

\* every Hist window, on one tail
HistFrames ==
    FramesWith({9, 10}, {2}, {2}, {<<1, 1, 2>>}, {<<1, NaN>>}, {2}, {2}, HistAll)

TextAbove == <<"A", ">", "2">>
TextBelow == <<"A", "<", "2">>
SignalTexts == {<<>>, TextAbove, TextBelow}

Configs(texts) ==
    [p_limit : {50}, v_limit : {1, 2}, use_breakout : BOOLEAN,
     use_macd_flip : BOOLEAN, custom_alert_input : texts]

HistConfigs ==
    [p_limit : {50}, v_limit : {2}, use_breakout : {FALSE},
     use_macd_flip : BOOLEAN, custom_alert_input : {<<>>}]

symbols == << <<"A">>, <<"B">> >>       \* line 158, a configured list

Null == [null |-> TRUE]

(***************************************************************************)
(* get_signal on one input (SpecSignal).                                   *)
(***************************************************************************)
InitSignal ==
    /\ \/ sig_in \in [df : OneBarFrames, cfg : Configs(SignalTexts), sym : {symbols[1]}]
       \/ sig_in \in [df : SignalFrames, cfg : Configs(SignalTexts), sym : {symbols[1]}]
       \/ sig_in \in [df : HistFrames, cfg : HistConfigs, sym : {symbols[1]}]
    /\ sig_out = Null
    /\ ca_in = Null /\ ca_out = Null
    /\ pc = "idle" /\ cfg = Null /\ cycle = 0 /\ i = 0 /\ all_data = {}
    /\ sent = <<>> /\ sends = <<>> /\ fires = <<>> /\ runs = <<>>
    /\ polls = <<>> /\ lastTick = <<>> /\ lastFailed = <<>> /\ ev = Null

CallGetSignal(in, ok) ==
    get_signal(in.df, in.cfg.p_limit, in.cfg.v_limit, in.sym, in.cfg.use_breakout,
               in.cfg.use_macd_flip, in.cfg.custom_alert_input, ok)

ApplyGetSignal ==
    /\ sig_out = Null
    /\ \E ok \in BOOLEAN : sig_out' = CallGetSignal(sig_in, ok)
    /\ UNCHANGED <<sig_in, ca_in, ca_out>>
    /\ UNCHANGED loopVars

NextSignal == ApplyGetSignal

SpecSignal == InitSignal /\ [][NextSignal]_vars

(***************************************************************************)
(* check_custom_alerts on one input (SpecCustom).                          *)
(***************************************************************************)
Alphabet == Letters \cup LowerLetters \cup {"1"} \cup Whitespace \cup Separators
            \cup {">", "<", ".", "sheng", "die", "chuan"}

CustomSymbols == {<<"A">>, <<"B", "A">>}

\* longer texts: blanks around the operator, a decimal target, two entries
WordTexts == {<<"A", " ", "die", "chuan", " ", "2">>,
              <<"B", "A", "sheng", "chuan", "1", ".", "2">>,
              <<"A", "<", "1", "\n", "a", ">", "2">>,
              <<"B", ">", "1", ",", " ", "A", ">", "2", " ">>}

InitCustom ==
    /\ \/ \E n \in 0..MaxText :
             ca_in \in [sym : CustomSymbols, price : 0..MaxPrice,
                        text : [1..n -> Alphabet]]
       \/ ca_in \in [sym : CustomSymbols, price : 0..MaxPrice, text : WordTexts]
    /\ ca_out = Null
    /\ sig_in = Null /\ sig_out = Null
    /\ pc = "idle" /\ cfg = Null /\ cycle = 0 /\ i = 0 /\ all_data = {}
    /\ sent = <<>> /\ sends = <<>> /\ fires = <<>> /\ runs = <<>>
    /\ polls = <<>> /\ lastTick = <<>> /\ lastFailed = <<>> /\ ev = Null

ApplyCheckCustomAlerts ==
    /\ ca_out = Null
    /\ ca_out' = check_custom_alerts(ca_in.sym, ca_in.price, ca_in.text)
    /\ UNCHANGED <<ca_in, sig_in, sig_out>>
    /\ UNCHANGED loopVars

NextCustom == ApplyCheckCustomAlerts

SpecCustom == InitCustom /\ [][NextCustom]_vars

(***************************************************************************)
(* fetch_data.  resp is what yfinance does on this call: it raises, it     *)
(* returns an empty frame, or it returns bars (the frame with its          *)
(* indicator columns).  Lines 49 and 64 turn the first two into None.      *)
(***************************************************************************)
None == [kind |-> "none"]

mut_fetch_data(resp) ==
    IF resp.kind = "exception" THEN [kind |-> "raise"]
    ELSE IF resp.kind = "empty" THEN None
    ELSE [kind |-> "df", df |-> resp.df]

fetch_data(resp) ==
    IF resp.kind \in {"exception", "empty"} THEN None
    ELSE [kind |-> "df", df |-> resp.df]

(***************************************************************************)
(* The polling loop (Spec): lines 179-215.  One step is one iteration of   *)
(* the for loop of line 185 (fetch, evaluate, dispatch, render the card),  *)
(* or the end of a pass (charts, caption, sleep).  An exception that       *)
(* leaves the loop body ends the script: nothing catches it.               *)
(***************************************************************************)
N == Len(symbols)
Positions == 1..N

\* frames the data source returns in the loop: too short (9 bars) or long
\* enough (20), closing below, at or above the prior bars, on a rising trend
LoopFrames ==
    FramesWith({9, 20}, Prices, {2}, {<<2, 1, 2>>}, {<<2, NaN>>, <<2, Num(1)>>},
               {2}, {2}, {HistBullFlip, Flat(MacdWindow, 0)})

LoopConfigs ==
    [p_limit : {50}, v_limit : {2}, use_breakout : BOOLEAN,
     use_macd_flip : {TRUE}, custom_alert_input : {<<>>, TextAbove}]

\* the rules that triggered in an evaluation
TriggeredRules(o) ==
    {r \in {"custom", "bb", "br", "bh", "bl", "mb", "mr"} :
        \/ r = "custom" /\ o.hit_custom
        \/ r = "bb" /\ o.base_bull
        \/ r = "br" /\ o.base_bear
        \/ r = "bh" /\ o.is_break_high
        \/ r = "bl" /\ o.is_break_low
        \/ r = "mb" /\ o.macd_bull_flip
        \/ r = "mr" /\ o.macd_bear_flip}

\* the record of one step: what the data source answered (resp), what the
\* evaluation did, and whether the previous notifier call of this position
\* had failed
Event(kind, pos, resp, out, ok) ==
    [kind |-> kind, pos |-> pos, resp |-> resp,
     ret |-> out.ret,
     short |-> (kind = "tick" /\ ~out.evaluated),
     alert |-> out.trigger_alert,
     action |-> out.action_type,
     ncalls |-> Len(out.calls),
     failed |-> (Len(out.calls) > 0 /\ ~ok),
     after_failure |-> (pos \in DOMAIN lastFailed /\ lastFailed[pos]),
     after_skip |-> (pos \in DOMAIN lastTick /\ lastTick[pos] = "skipped"),
     nrules |-> Cardinality(TriggeredRules(out)),
     crashed |-> FALSE]

\* no evaluation took place in the step
NoOut == [ShortReturn EXCEPT !.ret = <<>>]

Init ==
    /\ pc = "running"
    /\ cfg \in LoopConfigs
    /\ cycle = 1
    /\ i = 1
    /\ all_data = {}
    /\ sent = [k \in Positions |-> 0]
    /\ sends = [k \in Positions |-> 0]
    /\ fires = [k \in Positions |-> 0]
    /\ runs = [k \in Positions |-> 0]
    /\ polls = [k \in Positions |-> 0]
    /\ lastTick = [k \in Positions |-> "none"]
    /\ lastFailed = [k \in Positions |-> FALSE]
    /\ ev = Event("start", 0, "", NoOut, TRUE)
    /\ sig_in = Null /\ sig_out = Null /\ ca_in = Null /\ ca_out = Null

\* line 190: the call of get_signal and the unpacking of what it returns
SignalFails(out) == out.raised \/ Len(out.ret) # 4

\* lines 188-199 with out, what get_signal did for symbols[i]
Evaluate(resp, out, ok) ==
    /\ all_data' = all_data \cup {symbols[i]}
    /\ polls' = [polls EXCEPT ![i] = @ + 1]
    /\ sent' = [sent EXCEPT ![i] = @ + Len(out.calls)]
    /\ sends' = [sends EXCEPT ![i] = @ + Len(out.calls)]
    /\ fires' = [fires EXCEPT ![i] = @ + (IF out.trigger_alert THEN 1 ELSE 0)]
    /\ runs' = [runs EXCEPT ![i] =
                  @ + (IF out.trigger_alert /\ lastTick[i] # out.action_type
                       THEN 1 ELSE 0)]
    /\ lastTick' = [lastTick EXCEPT ![i] =
                      IF out.trigger_alert THEN out.action_type ELSE "quiet"]
    /\ lastFailed' = [lastFailed EXCEPT ![i] = IF Len(out.calls) > 0 THEN ~ok ELSE @]
    /\ IF SignalFails(out)
       THEN \* the exception leaves the loop body: the script stops
            /\ pc' = "crashed"
            /\ ev' = [Event("tick", i, resp, out, ok) EXCEPT !.crashed = TRUE]
            /\ UNCHANGED <<i, cycle, cfg>>
       ELSE /\ i' = i + 1
            /\ ev' = Event("tick", i, resp, out, ok)
            /\ UNCHANGED <<pc, cycle, cfg>>

\* lines 186-187 with r, what fetch_data returned for symbols[i]
AfterFetch(resp, r, ok) ==
    IF r.kind = "raise"
    THEN /\ pc' = "crashed"
         /\ polls' = [polls EXCEPT ![i] = @ + 1]
         /\ ev' = [Event("fetch", i, resp, NoOut, ok) EXCEPT !.crashed = TRUE]
         /\ UNCHANGED <<i, cycle, cfg, all_data, sent, sends, fires, runs,
                        lastTick, lastFailed>>
    ELSE IF r.kind = "none"
    THEN /\ i' = i + 1
         /\ polls' = [polls EXCEPT ![i] = @ + 1]
         /\ lastTick' = [lastTick EXCEPT ![i] = "skipped"]
         /\ ev' = Event("skip", i, resp, NoOut, ok)
         /\ UNCHANGED <<pc, cycle, cfg, all_data, sent, sends, fires, runs,
                        lastFailed>>
    ELSE Evaluate(resp,
                  get_signal(r.df, cfg.p_limit, cfg.v_limit, symbols[i],
                             cfg.use_breakout, cfg.use_macd_flip,
                             cfg.custom_alert_input, ok),
                  ok)

\* one iteration of the for loop, with what the collaborators do on this tick
LoopBody(resp, ok) == AfterFetch(resp.kind, fetch_data(resp), ok)

\* fetch_data has nothing for symbols[i]
PollUnavailable ==
    /\ pc = "running" /\ i <= N
    /\ \E resp \in {[kind |-> "exception"], [kind |-> "empty"]} : LoopBody(resp, TRUE)
    /\ UNCHANGED <<sig_in, sig_out, ca_in, ca_out>>

\* fetch_data returns a frame for symbols[i]
PollFrame ==
    /\ pc = "running" /\ i <= N
    /\ \E d \in LoopFrames, ok \in BOOLEAN : LoopBody([kind |-> "bars", df |-> d], ok)
    /\ UNCHANGED <<sig_in, sig_out, ca_in, ca_out>>

\* lines 200-215 and back to line 180: charts, caption, sleep, next pass
EndPass ==
    /\ pc = "running" /\ i = N + 1
    /\ cycle < MaxCycles
    /\ cycle' = cycle + 1
    /\ i' = 1
    /\ all_data' = {}
    /\ sent' = [k \in Positions |-> 0]
    /\ ev' = Event("sleep", 0, "", NoOut, TRUE)
    /\ UNCHANGED <<pc, cfg, sends, fires, runs, polls, lastTick, lastFailed>>
    /\ UNCHANGED <<sig_in, sig_out, ca_in, ca_out>>

Next == PollUnavailable \/ PollFrame \/ EndPass

Spec == Init /\ [][Next]_vars

(***************************************************************************)
(*                              PROPERTIES                                 *)
(***************************************************************************)
Actions == {PRICE_HIT, STRONG_BULL, STRONG_BEAR}

(***************************************************************************)
(* C1 (as stated).  For every symbol, the number of notifier send calls    *)
(* equals the number of maximal unbroken runs of consecutive ticks on      *)
(* which the same action fires: only the first tick of a run dispatches.   *)
(***************************************************************************)
C1_SendsEqualRuns == \A k \in Positions : sends[k] = runs[k]

(***************************************************************************)
(* C1 (amended).  For every symbol, the number of notifier send calls      *)
(* equals the number of ticks on which an alert fires for it: every tick   *)
(* of an unbroken run dispatches again, nothing is suppressed.             *)
(***************************************************************************)
C1_SendsEqualFiringTicks ==
    /\ \A k \in Positions : sends[k] = fires[k]
    /\ ev.alert => ev.ncalls = 1

\* a condition persisted over two consecutive ticks and was dispatched twice
C1_Witness ==
    \E k \in Positions : runs[k] = 1 /\ fires[k] = 2 /\ sends[k] = 2 /\ polls[k] = 2

(***************************************************************************)
(* C2.  A tick whose frame is shorter than get_signal's minimum ends       *)
(* neutral: no dispatch, no failure, and the loop goes on with the next    *)
(* symbol.                                                                 *)
(***************************************************************************)
C2_ShortHistoryIsNeutral ==
    ev.short => /\ ev.ncalls = 0
                /\ ~ev.crashed
                /\ pc = "running"
                /\ i = ev.pos + 1

(***************************************************************************)
(* C3.  A transport failure during a dispatch does not halt polling: the   *)
(* evaluation still returns its four-value outcome, the loop goes on with  *)
(* the next symbol, and a tick that fires after a failed dispatch calls    *)
(* the notifier again.                                                     *)
(***************************************************************************)
C3_TransportFailureDoesNotHalt ==
    /\ ev.failed => /\ ~ev.crashed
                    /\ pc = "running"
                    /\ Len(ev.ret) = 4
                    /\ i = ev.pos + 1
                    /\ lastFailed[ev.pos]
    /\ (ev.alert /\ ev.after_failure) => ev.ncalls = 1

\* a dispatch failed in an earlier pass and the symbol's next firing tick
\* called the notifier again
C3_Witness ==
    /\ ev.kind = "tick" /\ ev.alert /\ ev.after_failure /\ ev.ncalls = 1
    /\ cycle >= 2 /\ pc = "running"

(***************************************************************************)
(* C4.  When the data source has nothing for a symbol (empty result or     *)
(* exception) the symbol is skipped for this pass only: no evaluation, no  *)
(* dispatch, the loop goes on; and while the loop runs every position has  *)
(* been fetched once in each finished pass and once more if the current    *)
(* pass is past it, whatever was skipped before.                           *)
(***************************************************************************)
C4_UnavailableSkipsOneSymbolOnce ==
    /\ ev.resp \in {"exception", "empty"} =>
          /\ ev.kind = "skip"
          /\ ~ev.crashed
          /\ pc = "running"
          /\ i = ev.pos + 1
          /\ ev.ncalls = 0
          /\ sent[ev.pos] = 0
          /\ symbols[ev.pos] \notin all_data
    /\ pc = "running" =>
          \A k \in Positions : polls[k] = (cycle - 1) + (IF k < i THEN 1 ELSE 0)

\* a symbol skipped in one pass is fetched, evaluated and dispatched in the
\* next, after another symbol was evaluated in the pass that skipped it
C4_Witness ==
    /\ ev.kind = "tick" /\ ev.after_skip /\ ev.alert /\ ev.ncalls = 1
    /\ \E k \in Positions : k # ev.pos /\ sends[k] > 0

(***************************************************************************)
(* C10.  In every pass each position gets at most one notifier call, made  *)
(* exactly when its evaluation set the alert flag; a quiet or skipped      *)
(* position gets none.                                                     *)
(***************************************************************************)
C10_AtMostOneSendPerSymbolPerPass ==
    /\ \A k \in Positions :
          sent[k] = IF k < i /\ lastTick[k] \in Actions THEN 1 ELSE 0
    /\ ev.ncalls = IF ev.alert THEN 1 ELSE 0

\* a pass in which every position fired, one call each, under a configuration
\* where two rules triggered for the same symbol
C10_Witness ==
    /\ i = N + 1
    /\ \A k \in Positions : sent[k] = 1
    /\ ev.nrules >= 2

(***************************************************************************)
(* get_signal on one input: what the claims read.                          *)
(***************************************************************************)
Applied == sig_out # Null

BullTriggered(o) == o.base_bull \/ o.is_break_high \/ o.macd_bull_flip
BearTriggered(o) == o.base_bear \/ o.is_break_low \/ o.macd_bear_flip

BullFragments(o) == Pick(<< <<o.base_bull, R_BASE_BULL>>,
                            <<o.is_break_high, R_BREAK_HIGH>>,
                            <<o.macd_bull_flip, R_MACD_BULL>> >>)

(***************************************************************************)
(* C5.  Whenever the custom price-level rule triggers, the action reported *)
(* in the returned status and in the dispatched message is the             *)
(* price-level-hit action, whatever the other rules do.                    *)
(***************************************************************************)
C5_CustomHitReportsPriceHit ==
    (Applied /\ sig_out.hit_custom) =>
        /\ sig_out.ret[1] = PRICE_HIT
        /\ \A k \in 1..Len(sig_out.calls) : sig_out.calls[k].msg.action = PRICE_HIT

(***************************************************************************)
(* C6 (as stated).  When a bullish-class and a bearish-class rule trigger  *)
(* on the same tick, the action is the strong-bullish one and the reasons  *)
(* are exactly the bullish fragments, in the order trend, breakout, MACD.  *)
(***************************************************************************)
C6_BullPriorityOnlyBullFragments ==
    (Applied /\ BullTriggered(sig_out) /\ BearTriggered(sig_out)) =>
        /\ sig_out.action_type = STRONG_BULL
        /\ sig_out.reasons = BullFragments(sig_out)

(***************************************************************************)
(* C6 (amended).  When a bullish-class and a bearish-class rule trigger on *)
(* the same tick, the action (returned status and dispatched message) is   *)
(* the strong-bullish one and the reasons hold no bearish fragment: they   *)
(* are the custom rule's reason if that rule hit too, followed by the      *)
(* bullish fragments in the order trend, breakout, MACD.                   *)
(***************************************************************************)
C6_BullPriorityNoBearFragments ==
    (Applied /\ BullTriggered(sig_out) /\ BearTriggered(sig_out)) =>
        /\ sig_out.action_type = STRONG_BULL
        /\ sig_out.ret[1] = STRONG_BULL
        /\ Len(sig_out.calls) = 1
        /\ sig_out.calls[1].msg.action = STRONG_BULL
        /\ sig_out.calls[1].msg.reason = sig_out.reasons
        /\ IF sig_out.hit_custom
           THEN /\ sig_out.reasons # <<>>
                /\ Head(sig_out.reasons) =
                      check_custom_alerts(sig_in.sym, sig_in.df.Close,
                                          sig_in.cfg.custom_alert_input).reason
                /\ Tail(sig_out.reasons) = BullFragments(sig_out)
           ELSE sig_out.reasons = BullFragments(sig_out)

\* bullish and bearish rules and the custom rule all triggered, two bullish
\* fragments reported
C6_Witness ==
    /\ Applied
    /\ BullTriggered(sig_out) /\ BearTriggered(sig_out) /\ sig_out.hit_custom
    /\ Len(sig_out.reasons) = 3

(***************************************************************************)
(* The trend/volume condition of C7, written on the frame.                 *)
(***************************************************************************)
PlainConfig(in) == /\ ~in.cfg.use_breakout
                   /\ ~in.cfg.use_macd_flip
                   /\ in.cfg.custom_alert_input = <<>>

VolumeRatioAtLeast(df, lim) ==
    IF df.Vol_Avg.nan \/ df.Vol_Avg.val = 0 THEN 1 >= lim
    ELSE df.Volume >= lim * df.Vol_Avg.val

BullCondition(in) ==
    /\ in.df.Close > in.df.EMA200
    /\ in.df.EMA20 > in.df.EMA60
    /\ (in.df.Close - in.df.PrevClose) * 100 >= in.cfg.p_limit * in.df.PrevClose
    /\ VolumeRatioAtLeast(in.df, in.cfg.v_limit)

FiredBullish(o) == o.trigger_alert /\ o.action_type = STRONG_BULL /\ Len(o.calls) = 1

(***************************************************************************)
(* C7 (as stated).  With breakout and MACD-flip off and no custom rule,    *)
(* for every history of at least 2 bars get_signal fires a bullish alert   *)
(* exactly when close > ema200, ema20 > ema60, the percent change reaches  *)
(* the price threshold and the volume ratio (1 when the 20-bar average is  *)
(* zero or undefined) reaches the volume threshold; below 2 bars it never  *)
(* fires.                                                                  *)
(***************************************************************************)
C7_BullishFromTwoBars ==
    (Applied /\ PlainConfig(sig_in)) =>
        IF sig_in.df.len >= 2
        THEN FiredBullish(sig_out) <=> BullCondition(sig_in)
        ELSE ~sig_out.trigger_alert

(***************************************************************************)
(* C7 (amended).  The same, for every history of at least 10 bars; below   *)
(* 10 bars get_signal never fires.                                         *)
(***************************************************************************)
C7_BullishFromTenBars ==
    (Applied /\ PlainConfig(sig_in)) =>
        IF sig_in.df.len >= MinBars
        THEN FiredBullish(sig_out) <=> BullCondition(sig_in)
        ELSE ~sig_out.trigger_alert /\ sig_out.calls = <<>>

\* a bullish alert fired on the default volume ratio, at the price threshold
C7_Witness ==
    /\ Applied /\ PlainConfig(sig_in)
    /\ FiredBullish(sig_out)
    /\ sig_in.df.Vol_Avg.nan
    /\ (sig_in.df.Close - sig_in.df.PrevClose) * 100
          = sig_in.cfg.p_limit * sig_in.df.PrevClose

(***************************************************************************)
(* The 7+1 patterns of C9, written on the Hist window.                     *)
(***************************************************************************)
SevenThenOne(w, s) ==
    /\ Len(w) = 8
    /\ \A k \in 1..7 : w[k] * s < 0
    /\ w[8] * s > 0

FlipAsPattern(in, o) ==
    IF in.cfg.use_macd_flip
    THEN /\ o.macd_bull_flip <=> SevenThenOne(in.df.Hist, 1)
         /\ o.macd_bear_flip <=> SevenThenOne(in.df.Hist, 0 - 1)
    ELSE ~o.macd_bull_flip /\ ~o.macd_bear_flip

(***************************************************************************)
(* C9 (as stated).  With MACD-flip on, the bullish flip triggers exactly   *)
(* when the first 7 of the trailing 8 histogram values are strictly        *)
(* negative and the 8th strictly positive, the bearish flip exactly on the *)
(* mirror pattern; with the toggle off no flip is reported.                *)
(***************************************************************************)
C9_FlipOnAnyEightBars ==
    (Applied /\ sig_in.df.len >= MacdWindow) => FlipAsPattern(sig_in, sig_out)

(***************************************************************************)
(* C9 (amended).  The same, on histories of at least 10 bars; on shorter   *)
(* ones get_signal reports no flip.                                        *)
(***************************************************************************)
C9_FlipOnTenBars ==
    Applied =>
        IF sig_in.df.len >= MinBars
        THEN FlipAsPattern(sig_in, sig_out)
        ELSE ~sig_out.macd_bull_flip /\ ~sig_out.macd_bear_flip

\* a bearish flip reported on a 10-bar history
C9_Witness ==
    /\ Applied /\ sig_in.df.len = MinBars
    /\ sig_out.macd_bear_flip /\ sig_out.action_type = STRONG_BEAR
    /\ R_MACD_BEAR \in {sig_out.reasons[k] : k \in 1..Len(sig_out.reasons)}

(***************************************************************************)
(* The grammar of C8: an entry is  SYMBOL op number, the symbol being the  *)
(* whole first word, with optional blanks around the operator.             *)
(***************************************************************************)
IsNumber(d) ==
    /\ d # <<>>
    /\ \E n \in 1..Len(d) :
          /\ \A k \in 1..n : d[k] \in Digits
          /\ \/ n = Len(d)
             \/ /\ d[n + 1] = "."
                /\ \A k \in (n + 2)..Len(d) : d[k] \in Digits

\* a is sym, blanks, an operator of kind op, blanks, and the number d
EntryIs(a, sym, op, d) ==
    \E p \in 1..Len(a), ol \in {1, 2} :
        /\ p > Len(sym) /\ p + ol <= Len(a)
        /\ SubSeq(a, 1, Len(sym)) = sym
        /\ \A k \in (Len(sym) + 1)..(p - 1) : a[k] \in Whitespace
        /\ SubSeq(a, p, p + ol - 1)
              \in (IF op = "above" THEN {<<">">>, <<"sheng", "chuan">>}
                   ELSE {<<"<">>, <<"die", "chuan">>})
        /\ \E q \in (p + ol)..Len(a) :
              /\ \A k \in (p + ol)..(q - 1) : a[k] \in Whitespace
              /\ d = SubSeq(a, q, Len(a))
              /\ IsNumber(d)

NumbersIn(a) == {SubSeq(a, q, Len(a)) : q \in 1..Len(a)}

\* value of a number of the grammar, as a fraction
NumberValue(d) ==
    LET dot == {k \in 1..Len(d) : d[k] = "."}
        n == IF dot = {} THEN Len(d) ELSE (CHOOSE k \in dot : TRUE) - 1
        fr == SubSeq(d, n + 2, Len(d))
    IN  [num |-> DigitsVal(SubSeq(d, 1, n)) * Pow10(Len(fr)) + DigitsVal(fr),
         den |-> Pow10(Len(fr))]

\* the entry raw is well formed for sym and its inclusive comparison holds
EntryTriggers(sym, price, raw) ==
    LET a == upper(strip(raw))
    IN  \E d \in NumbersIn(a) :
           \/ EntryIs(a, sym, "above", d)
              /\ price * NumberValue(d).den >= NumberValue(d).num
           \/ EntryIs(a, sym, "below", d)
              /\ price * NumberValue(d).den <= NumberValue(d).num

(***************************************************************************)
(* C8.  check_custom_alerts triggers exactly when the text, split on       *)
(* commas and newlines, holds a well-formed entry for exactly this symbol  *)
(* whose inclusive comparison holds; the reason reports the first such     *)
(* entry.                                                                  *)
(***************************************************************************)
C8_TriggersOnExactSymbolEntries ==
    ca_out # Null =>
        LET entries == re_split(ca_in.text)
            good == {k \in 1..Len(entries) :
                       EntryTriggers(ca_in.sym, ca_in.price, entries[k])}
        IN  /\ ca_out.hit <=> good # {}
            /\ ca_out.hit =>
                  \E k \in good : /\ \A m \in good : k <= m
                                  /\ ca_out.reason = upper(strip(entries[k]))

====
